---- MODULE Spec2Model ----
(***************************************************************************)
(* Kobe Assist sequence detection (kobe_assists_app.py).                   *)
(*                                                                         *)
(* A play is a dictionary: a function from a set of keys to values.  A     *)
(* list of plays is a sequence; the source indexes it from 0, so the play  *)
(* at source index i is plays[i + 1].                                      *)
(***************************************************************************)
EXTENDS Integers, Sequences, FiniteSets, TLC

\* ------------------------------------------------------------------------
\* Program constants
\* ------------------------------------------------------------------------
MADE_FG == 1
MISSED_SHOT == 2
MADE_FT == 3
REBOUND == 4
TURNOVER == 5
\* range(missed_shot_index + 1, min(len(plays), missed_shot_index + 8))
LOOKAHEAD_END == 8
\* default of play.get('EVENTMSGTYPE', 0) and play.get('PLAYER1_TEAM_ID', 0)
DEFAULT_INT == 0

\* ------------------------------------------------------------------------
\* Bounds of the model
\* ------------------------------------------------------------------------
\* longest list of plays following the missed shot, direct scans
MaxTail == 4
\* longest list of plays of a game
MaxGameLen == 5
\* plays beyond the look-ahead window, window scans
MaxBeyond == 1
\* most words in a HOMEDESCRIPTION
MaxWords == 2
\* most games in the sample of the worker
MaxGames == 3
\* longest list of plays analysed by two calls at once
MaxCallLen == 4

\* ------------------------------------------------------------------------
\* Dictionaries and strings
\* ------------------------------------------------------------------------
\* play.get(key, default)
Get(play, key, default) == IF key \in DOMAIN play THEN play[key] ELSE default

Min(a, b) == IF a <= b THEN a ELSE b

\* plays[i], source index from 0
At(ps, i) == ps[i + 1]

\* A string is a sequence of one-character strings.
\* kw in s : kw occurs in s as a contiguous substring
Contains(s, kw) ==
    \E k \in 0..(Len(s) - Len(kw)) :
        \A j \in 1..Len(kw) : s[k + j] = kw[j]

KW_3PT == <<"3", "P", "T">>
KW_ThreePoint == <<"T", "h", "r", "e", "e", " ", "P", "o", "i", "n", "t">>
KW_FreeThrow == <<"F", "r", "e", "e", " ", "T", "h", "r", "o", "w">>
KW_Technical == <<"T", "e", "c", "h", "n", "i", "c", "a", "l">>
KW_FieldGoal == <<"F", "i", "e", "l", "d", " ", "G", "o", "a", "l">>
KW_Dunk == <<"D", "u", "n", "k">>
KW_Layup == <<"L", "a", "y", "u", "p">>

\* ------------------------------------------------------------------------
\* Event classifiers
\* ------------------------------------------------------------------------
is_missed_shot(play) == Get(play, "EVENTMSGTYPE", DEFAULT_INT) = MISSED_SHOT

is_offensive_rebound_any_team(play, shooting_team_id) ==
    Get(play, "EVENTMSGTYPE", DEFAULT_INT) = REBOUND

is_offensive_rebound(play, shooting_team_id) ==
    LET event_type == Get(play, "EVENTMSGTYPE", DEFAULT_INT)
        team_id == Get(play, "PLAYER1_TEAM_ID", DEFAULT_INT)
    IN  event_type = REBOUND /\ team_id = shooting_team_id

is_score(play) ==
    LET event_type == Get(play, "EVENTMSGTYPE", DEFAULT_INT)
    IN  event_type \in {MADE_FG, MADE_FT}

\* A description is a string or None (a column without a value).
PyNone == <<"None">>

\* str(v)
Str(v) == IF v = PyNone THEN <<"N", "o", "n", "e">> ELSE v

\* the free-throw markers tested before the three-point markers
extract_points_free_throw_first(play) ==
    LET description == Str(Get(play, "HOMEDESCRIPTION", <<>>)) \o <<" ">>
                         \o Str(Get(play, "VISITORDESCRIPTION", <<>>))
    IN  IF Contains(description, KW_FreeThrow)
           \/ Contains(description, KW_Technical)
        THEN 1
        ELSE IF Contains(description, KW_3PT)
                  \/ Contains(description, KW_ThreePoint)
        THEN 3
        ELSE 2

extract_points_from_play(play) ==
    LET description == Str(Get(play, "HOMEDESCRIPTION", <<>>)) \o <<" ">>
                         \o Str(Get(play, "VISITORDESCRIPTION", <<>>))
    IN  IF Contains(description, KW_3PT) \/ Contains(description, KW_ThreePoint)
        THEN 3
        ELSE IF Contains(description, KW_FreeThrow)
                  \/ Contains(description, KW_Technical)
        THEN 1
        ELSE IF \E keyword \in {KW_FieldGoal, KW_Dunk, KW_Layup} :
                    Contains(description, keyword)
        THEN 2
        ELSE 2

\* ------------------------------------------------------------------------
\* check_kobe_assist_sequence: the look-ahead scan after a missed shot
\* ------------------------------------------------------------------------
\* one past the last index the loop visits
window_end_one_more(n, missed_shot_index) ==
    Min(n, missed_shot_index + LOOKAHEAD_END + 1)

window_end(n, missed_shot_index) == Min(n, missed_shot_index + LOOKAHEAD_END)

\* before an offensive rebound: a rebound or a turnover ends the scan
possession_changed_turnover_only(play) ==
    Get(play, "EVENTMSGTYPE", DEFAULT_INT) = TURNOVER

possession_changed_rebound_only(play) ==
    Get(play, "EVENTMSGTYPE", DEFAULT_INT) = REBOUND

possession_changed(play) ==
    Get(play, "EVENTMSGTYPE", DEFAULT_INT) \in {REBOUND, TURNOVER}

\* after the offensive rebound: the play that is credited
credited_score_other_team(play, shooting_team_id) ==
    /\ Get(play, "EVENTMSGTYPE", DEFAULT_INT) = MADE_FG
    /\ Get(play, "PLAYER1_TEAM_ID", DEFAULT_INT) # shooting_team_id

credited_score_or_free_throw(play, shooting_team_id) ==
    /\ Get(play, "EVENTMSGTYPE", DEFAULT_INT) \in {MADE_FG, MADE_FT}
    /\ Get(play, "PLAYER1_TEAM_ID", DEFAULT_INT) = shooting_team_id

credited_score_any_team(play, shooting_team_id) ==
    Get(play, "EVENTMSGTYPE", DEFAULT_INT) = MADE_FG

credited_score(play, shooting_team_id) ==
    /\ Get(play, "EVENTMSGTYPE", DEFAULT_INT) = MADE_FG
    /\ Get(play, "PLAYER1_TEAM_ID", DEFAULT_INT) = shooting_team_id

\* after the offensive rebound: a turnover, or a rebound of another team
possession_lost_turnover_only(play, shooting_team_id) ==
    Get(play, "EVENTMSGTYPE", DEFAULT_INT) = TURNOVER

possession_lost_any_rebound(play, shooting_team_id) ==
    Get(play, "EVENTMSGTYPE", DEFAULT_INT) \in {TURNOVER, REBOUND}

possession_lost(play, shooting_team_id) ==
    LET event_type == Get(play, "EVENTMSGTYPE", DEFAULT_INT)
    IN  \/ event_type = TURNOVER
        \/ /\ event_type = REBOUND
           /\ Get(play, "PLAYER1_TEAM_ID", DEFAULT_INT) # shooting_team_id

\* One iteration of the loop on current_play.  brk: the iteration ended in
\* a break; otherwise the loop goes on to the next index.
ScanIter(current_play, shooting_team_id, found, total) ==
    IF ~found /\ is_offensive_rebound(current_play, shooting_team_id)
    THEN [found |-> TRUE, total |-> total, brk |-> FALSE]
    ELSE IF ~found /\ possession_changed(current_play)
    THEN [found |-> found, total |-> total, brk |-> TRUE]
    ELSE IF found
    THEN IF credited_score(current_play, shooting_team_id)
         THEN [found |-> found, total |-> total + 1, brk |-> TRUE]
         ELSE IF possession_lost(current_play, shooting_team_id)
         THEN [found |-> found, total |-> total, brk |-> TRUE]
         ELSE IF ~found /\ possession_changed(current_play)
         THEN [found |-> found, total |-> total, brk |-> TRUE]
         ELSE [found |-> found, total |-> total, brk |-> FALSE]
    ELSE [found |-> found, total |-> total, brk |-> FALSE]

\* return total_points if found_offensive_rebound else 0
scan_return(found, total) == IF found THEN total ELSE 0

RECURSIVE ScanFrom(_, _, _, _, _, _)
ScanFrom(ps, i, end, shooting_team_id, found, total) ==
    IF i >= end
    THEN scan_return(found, total)
    ELSE LET st == ScanIter(At(ps, i), shooting_team_id, found, total)
         IN  IF st.brk
             THEN scan_return(st.found, st.total)
             ELSE ScanFrom(ps, i + 1, end, shooting_team_id, st.found, st.total)

check_kobe_assist_sequence(ps, missed_shot_index, shooting_team_id) ==
    ScanFrom(ps, missed_shot_index + 1, window_end(Len(ps), missed_shot_index),
             shooting_team_id, FALSE, 0)

\* ------------------------------------------------------------------------
\* analyze_game_for_kobe_assists: the pass over the plays of one game
\* ------------------------------------------------------------------------
\* names compared without regard to case
LowerName(name) == IF name = "Player X" THEN "player x" ELSE name

is_target_miss_ignoring_case(play, name) ==
    /\ is_missed_shot(play)
    /\ LowerName(Get(play, "PLAYER1_NAME", "")) = LowerName(name)

is_target_miss(play, name) ==
    is_missed_shot(play) /\ Get(play, "PLAYER1_NAME", "") = name

\* the running total overwritten by the points of the latest scan
GameIter_replacing(ps, i, name, total) ==
    LET play == At(ps, i)
    IN  IF is_target_miss(play, name)
        THEN check_kobe_assist_sequence(ps, i,
                 Get(play, "PLAYER1_TEAM_ID", DEFAULT_INT))
        ELSE total

\* One iteration of the loop over enumerate(plays): the new running total
GameIter(ps, i, name, total) ==
    LET play == At(ps, i)
    IN  IF is_target_miss(play, name)
        THEN LET shooting_team_id == Get(play, "PLAYER1_TEAM_ID", DEFAULT_INT)
                 points == check_kobe_assist_sequence(ps, i, shooting_team_id)
             IN  total + points
        ELSE total

\* the loop at lines 115-119 from index k on
RECURSIVE GameLoop(_, _, _, _)
GameLoop(ps, k, name, total) ==
    IF k >= Len(ps)
    THEN total
    ELSE GameLoop(ps, k + 1, name, GameIter(ps, k, name, total))

\* The outcome of a call: the value returned, or an exception raised.
Returned(v) == [raised |-> FALSE, value |-> v]
Raised == [raised |-> TRUE, value |-> 0]

\* the failure of the fetch at line 112 not caught
analyze_game_without_except(answer, name) ==
    IF answer.ok
    THEN Returned(GameLoop(answer.records, 0, name, 0))
    ELSE Raised

\* analyze_game_for_kobe_assists(game_id, player_name), answer being what
\* the play-by-play source answers for game_id
analyze_game_for_kobe_assists(answer, name) ==
    IF answer.ok
    THEN Returned(GameLoop(answer.records, 0, name, 0))
    ELSE Returned(0)

\* ------------------------------------------------------------------------
\* Inputs
\* ------------------------------------------------------------------------
Teams == {1, 2}

D_3PTShot == <<"3", "P", "T", " ", "S", "h", "o", "t">>
D_Layup == KW_Layup

Miss(t, name) ==
    [EVENTMSGTYPE |-> MISSED_SHOT, PLAYER1_TEAM_ID |-> t, PLAYER1_NAME |-> name]
MadeFG(t, desc) ==
    [EVENTMSGTYPE |-> MADE_FG, PLAYER1_TEAM_ID |-> t, HOMEDESCRIPTION |-> desc]
MadeFT(t) ==
    [EVENTMSGTYPE |-> MADE_FT, PLAYER1_TEAM_ID |-> t,
     VISITORDESCRIPTION |-> KW_FreeThrow]
Rebound(t) == [EVENTMSGTYPE |-> REBOUND, PLAYER1_TEAM_ID |-> t]
Turnover(t) == [EVENTMSGTYPE |-> TURNOVER, PLAYER1_TEAM_ID |-> t]
\* a play with no event type
Untyped(t) == [PLAYER1_TEAM_ID |-> t]
\* a play of a type the scan has no rule for
Foul(t) == [EVENTMSGTYPE |-> 6, PLAYER1_TEAM_ID |-> t]

\* plays that follow the missed shot, direct scans
ScanEvents ==
    {MadeFG(1, D_3PTShot), MadeFG(2, D_Layup), MadeFT(1), Rebound(1),
     Rebound(2), Turnover(1), Miss(1, "Player Y"), Untyped(1), Foul(2)}

\* plays of the scans that run to the end of the window
WindowEvents == {MadeFG(1, D_Layup), Rebound(1), Miss(1, "Player Y")}

\* plays of a game
PlayerNames == {"Player X", "player x"}
GameEvents ==
    {Miss(1, "Player X"), Miss(1, "player x"), Rebound(1), Rebound(2),
     MadeFG(1, D_Layup), Turnover(2)}

\* all sequences over S of length lo..hi
SeqsOf(S, lo, hi) == UNION {[1..n -> S] : n \in lo..hi}

\* words of the descriptions
Words ==
    {KW_3PT, <<"3", "p", "t">>, <<"T", "h", "r", "e", "e">>,
     <<"P", "o", "i", "n", "t">>, <<"F", "r", "e", "e">>,
     <<"T", "h", "r", "o", "w">>, KW_Technical}

\* the words ws joined by single spaces
RECURSIVE JoinWords(_)
JoinWords(ws) ==
    IF ws = <<>> THEN <<>>
    ELSE IF Len(ws) = 1 THEN ws[1]
    ELSE ws[1] \o <<" ">> \o JoinWords(Tail(ws))

\* the descriptions of at most n words
Descriptions(n) == {JoinWords(ws) : ws \in SeqsOf(Words, 0, n)}

\* a description column of a play that has none
Absent == <<"absent">>

\* a made field goal with the given description columns
DescribedPlay(home, visitor) ==
    [k \in {"EVENTMSGTYPE"}
              \cup (IF home = Absent THEN {} ELSE {"HOMEDESCRIPTION"})
              \cup (IF visitor = Absent THEN {} ELSE {"VISITORDESCRIPTION"})
        |-> IF k = "EVENTMSGTYPE" THEN MADE_FG
            ELSE IF k = "HOMEDESCRIPTION" THEN home ELSE visitor]

\* ------------------------------------------------------------------------
\* State
\* ------------------------------------------------------------------------
VARIABLES
    plays,                    \* the list of plays
    pc,                       \* "scan", "return", "fetch", "game", "done"
    missed_shot_index,        \* check_kobe_assist_sequence: arguments
    shooting_team_id,
    i,                        \*   loop variable
    total_points,
    found_offensive_rebound,
    result,                   \*   value returned (-1: not yet)
    examined,                 \*   indices read as plays[i] so far
    rebound_at,               \*   index where the offensive rebound was found
    credited_at,              \*   index where total_points was incremented
    player_name,              \* analyze_game_for_kobe_assists: argument
    pbp,                      \*   what the play-by-play source answers
    g,                        \*   loop variable
    total_kobe_points,
    game_result,              \*   value returned (-1: not yet)
    play,                     \* extract_points_from_play: argument
    points,                   \*   value returned (-1: not yet)
    games,                    \* worker: per sampled game, the source's answer
    worker_i,                 \*   loop variable
    worker_total_points,      \*   total_points
    log,                      \*   points reported per game, in order
    average,                  \*   <<total, number of games>> (<<>>: none)
    calls,                    \* the frames of the calls in progress, by call
    app,                      \* KobeAssistApp: attributes and widget options
    threads                   \* threads started and callbacks scheduled

scan_vars == <<missed_shot_index, shooting_team_id, i, total_points,
               found_offensive_rebound, result, examined, rebound_at,
               credited_at>>
game_vars == <<player_name, pbp, g, total_kobe_points, game_result>>
points_vars == <<play, points>>
worker_vars == <<games, worker_i, worker_total_points, log, average>>
gui_vars == <<app, threads>>
other_vars == <<points_vars, worker_vars, calls, gui_vars>>
vars == <<plays, pc, scan_vars, game_vars, other_vars>>

\* locals of check_kobe_assist_sequence on entry
ScanEntry(m, t) ==
    /\ missed_shot_index = m
    /\ shooting_team_id = t
    /\ i = m + 1
    /\ total_points = 0
    /\ found_offensive_rebound = FALSE
    /\ result = -1
    /\ examined = {}
    /\ rebound_at = -1
    /\ credited_at = -1

\* the play-by-play source: the records of the game, or a failure
Fetched(records) == [ok |-> TRUE, records |-> records]
Unavailable == [ok |-> FALSE, records |-> <<>>]

\* no call of extract_points_from_play
NoPoints ==
    /\ play = [EVENTMSGTYPE |-> DEFAULT_INT]
    /\ points = -1

\* no worker
NoWorker ==
    /\ games = <<>>
    /\ worker_i = 0
    /\ worker_total_points = 0
    /\ log = <<>>
    /\ average = <<>>

\* no calls beside the one of the scan or the game analysis
NoCalls == calls = <<>>

\* no application window
NoApp == app = <<>> /\ threads = <<>>

Others == NoPoints /\ NoWorker /\ NoCalls /\ NoApp

NoGame ==
    /\ player_name = ""
    /\ pbp = Unavailable
    /\ g = 0
    /\ total_kobe_points = 0
    /\ game_result = -1

\* a call check_kobe_assist_sequence(plays, m, t) where plays[m] is a missed
\* shot of team t, preceded by the plays pre and followed by a tail
InitScanOver(teams, pres, tails) ==
    /\ pc = "scan"
    /\ \E t \in teams, pre \in pres, tail \in tails :
          /\ plays = pre \o <<Miss(t, "Player X")>> \o tail
          /\ ScanEntry(Len(pre), t)
    /\ NoGame
    /\ Others

Init == InitScanOver(Teams, {<<>>, <<Rebound(1)>>},
                     SeqsOf(ScanEvents, 0, MaxTail))

\* scans over lists that reach to the end of the window and beyond it
InitWindow ==
    InitScanOver({1}, {<<>>, <<Rebound(1)>>},
                 SeqsOf(WindowEvents, 0, LOOKAHEAD_END - 1 + MaxBeyond))

\* analyze_game_for_kobe_assists(game, player_name) on the plays of the game
InitGame ==
    /\ pc = "fetch"
    /\ pbp \in {Fetched(records) : records \in SeqsOf(GameEvents, 0, MaxGameLen)}
                 \cup {Unavailable}
    /\ plays = <<>>
    /\ player_name \in PlayerNames
    /\ g = 0
    /\ total_kobe_points = 0
    /\ game_result = -1
    /\ ScanEntry(0, 0)
    /\ Others

\* one iteration of the loop at line 146
ScanStep ==
    /\ pc = "scan"
    /\ i < window_end(Len(plays), missed_shot_index)
    /\ LET st == ScanIter(At(plays, i), shooting_team_id,
                          found_offensive_rebound, total_points)
       IN  /\ found_offensive_rebound' = st.found
           /\ total_points' = st.total
           /\ examined' = examined \cup {i}
           /\ rebound_at' = IF st.found /\ ~found_offensive_rebound
                            THEN i ELSE rebound_at
           /\ credited_at' = IF st.total # total_points THEN i ELSE credited_at
           /\ IF st.brk
              THEN pc' = "return" /\ i' = i
              ELSE pc' = "scan" /\ i' = i + 1
    /\ UNCHANGED <<plays, missed_shot_index, shooting_team_id, result, game_vars,
                   other_vars>>

\* the loop is left (range exhausted or break): line 187
ScanReturn ==
    /\ \/ pc = "return"
       \/ pc = "scan" /\ i >= window_end(Len(plays), missed_shot_index)
    /\ result' = scan_return(found_offensive_rebound, total_points)
    /\ pc' = "done"
    /\ UNCHANGED <<plays, missed_shot_index, shooting_team_id, i, total_points,
                   found_offensive_rebound, examined, rebound_at, credited_at,
                   game_vars, other_vars>>

Next == ScanStep \/ ScanReturn

Spec == Init /\ [][Next]_vars

SpecWindow == InitWindow /\ [][Next]_vars

\* lines 111-114: the plays are fetched; a failure is caught at line 121 and
\* 0 is returned
GameFetch ==
    /\ pc = "fetch"
    /\ IF pbp.ok
       THEN /\ plays' = pbp.records
            /\ pc' = "game"
            /\ UNCHANGED game_result
       ELSE /\ game_result' = 0
            /\ pc' = "done"
            /\ UNCHANGED plays
    /\ UNCHANGED <<player_name, pbp, g, total_kobe_points, scan_vars, other_vars>>

\* one iteration of the loop at line 115
GameStep ==
    /\ pc = "game"
    /\ g < Len(plays)
    /\ total_kobe_points' = GameIter(plays, g, player_name, total_kobe_points)
    /\ g' = g + 1
    /\ UNCHANGED <<plays, pc, player_name, pbp, game_result, scan_vars,
                   other_vars>>

\* the loop is left: line 120
GameReturn ==
    /\ pc = "game"
    /\ g >= Len(plays)
    /\ game_result' = total_kobe_points
    /\ pc' = "done"
    /\ UNCHANGED <<plays, player_name, pbp, g, total_kobe_points, scan_vars,
                   other_vars>>

NextGame == GameFetch \/ GameStep \/ GameReturn

SpecGame == InitGame /\ [][NextGame]_vars

SpecWindowFair == InitWindow /\ [][Next]_vars /\ WF_vars(Next)

\* no scan and no game analysis
NoEngine ==
    /\ plays = <<>>
    /\ ScanEntry(0, 0)
    /\ NoGame

\* a call extract_points_from_play(play)
InitPoints ==
    /\ pc = "points"
    /\ \E home \in Descriptions(MaxWords) \cup {PyNone, Absent},
          visitor \in Descriptions(1) \cup {PyNone, Absent} :
          play = DescribedPlay(home, visitor)
    /\ points = -1
    /\ NoEngine
    /\ NoWorker
    /\ NoCalls
    /\ NoApp

\* lines 89-97
ExtractPoints ==
    /\ pc = "points"
    /\ points' = extract_points_from_play(play)
    /\ pc' = "done"
    /\ UNCHANGED <<plays, scan_vars, game_vars, play, worker_vars, calls,
                   gui_vars>>

NextPoints == ExtractPoints

SpecPoints == InitPoints /\ [][NextPoints]_vars

\* what the play-by-play source answers for the games of the sample
GameAnswers ==
    {Unavailable,
     Fetched(<<Miss(1, "Player X"), Rebound(1), MadeFG(1, D_Layup)>>),
     Fetched(<<Miss(1, "Player X"), Rebound(2)>>)}

\* calculate_player_kobe_assist_average(app, player_name, ...): games is the
\* list get_sample_games returns, empty when it fails
InitWorker ==
    /\ pc = "worker"
    /\ games \in SeqsOf(GameAnswers, 0, MaxGames)
    /\ worker_i = 0
    /\ worker_total_points = 0
    /\ log = <<>>
    /\ average = <<>>
    /\ plays = <<>>
    /\ ScanEntry(0, 0)
    /\ player_name \in PlayerNames
    /\ pbp = Unavailable
    /\ g = 0
    /\ total_kobe_points = 0
    /\ game_result = -1
    /\ NoPoints
    /\ NoCalls
    /\ NoApp

\* lines 204-206: no games, the worker reports the error and returns
WorkerNoGames ==
    /\ pc = "worker"
    /\ games = <<>>
    /\ pc' = "done"
    /\ UNCHANGED <<plays, scan_vars, game_vars, other_vars>>

\* lines 209-213: one game of the loop
WorkerGame ==
    /\ pc = "worker"
    /\ worker_i < Len(games)
    /\ LET call == analyze_game_for_kobe_assists(At(games, worker_i),
                                                 player_name)
       IN  IF call.raised
           THEN /\ pc' = "crashed"
                /\ UNCHANGED <<worker_i, worker_total_points, log>>
           ELSE /\ worker_total_points' = worker_total_points + call.value
                /\ log' = Append(log, call.value)
                /\ worker_i' = worker_i + 1
                /\ pc' = pc
    /\ UNCHANGED <<plays, scan_vars, game_vars, points_vars, games, average,
                   calls, gui_vars>>

\* lines 215-217: the average is reported
WorkerFinish ==
    /\ pc = "worker"
    /\ games # <<>>
    /\ worker_i >= Len(games)
    /\ average' = <<worker_total_points, Len(games)>>
    /\ pc' = "done"
    /\ UNCHANGED <<plays, scan_vars, game_vars, points_vars, games, worker_i,
                   worker_total_points, log, calls, gui_vars>>

NextWorker == WorkerNoGames \/ WorkerGame \/ WorkerFinish

SpecWorker == InitWorker /\ [][NextWorker]_vars

\* ------------------------------------------------------------------------
\* Two calls of the game analysis on the same plays, their steps interleaved
\* ------------------------------------------------------------------------
Callers == {1, 2}

CallEvents ==
    {Miss(1, "Player X"), Rebound(1), MadeFG(1, D_Layup), Turnover(2)}

\* the locals of check_kobe_assist_sequence left as the previous call of it
\* in the same frame left them
scan_locals_kept(frame, m, t) ==
    [frame EXCEPT !.stage = "scan", !.missed_shot_index = m,
                  !.shooting_team_id = t, !.i = m + 1]

\* lines 143-146: the locals of check_kobe_assist_sequence(plays, m, t) on
\* entry
scan_locals(frame, m, t) ==
    [frame EXCEPT !.stage = "scan", !.missed_shot_index = m,
                  !.shooting_team_id = t, !.i = m + 1,
                  !.total_points = 0, !.found_offensive_rebound = FALSE]

\* line 114: the frame of analyze_game_for_kobe_assists on entering the loop
GameFrame ==
    [stage |-> "game", g |-> 0, total_kobe_points |-> 0, game_result |-> -1,
     missed_shot_index |-> 0, shooting_team_id |-> 0, i |-> 0,
     total_points |-> 0, found_offensive_rebound |-> FALSE, returned |-> {},
     credited |-> {}]

\* the calls of callers, each analyze_game_for_kobe_assists on one of lists
InitCallsOf(callers, lists) ==
    /\ pc = "calls"
    /\ plays \in lists
    /\ player_name = "Player X"
    /\ calls = [c \in callers |-> GameFrame]
    /\ ScanEntry(0, 0)
    /\ pbp = Unavailable
    /\ g = 0
    /\ total_kobe_points = 0
    /\ game_result = -1
    /\ NoPoints
    /\ NoWorker
    /\ NoApp

InitCalls == InitCallsOf(Callers, SeqsOf(CallEvents, 0, MaxCallLen))

CallFrame == <<plays, pc, scan_vars, game_vars, points_vars, worker_vars,
               gui_vars>>

\* lines 115-118: the next play of the game; a missed shot of the player
\* starts a scan
CallGameStep(c) ==
    LET f == calls[c]
    IN  /\ f.stage = "game"
        /\ f.g < Len(plays)
        /\ calls' = [calls EXCEPT ![c] =
              IF is_target_miss(At(plays, f.g), player_name)
              THEN scan_locals(f, f.g,
                       Get(At(plays, f.g), "PLAYER1_TEAM_ID", DEFAULT_INT))
              ELSE [f EXCEPT !.g = f.g + 1]]
        /\ UNCHANGED CallFrame

\* lines 146-185: one iteration of the scan
CallScanStep(c) ==
    LET f == calls[c]
    IN  /\ f.stage = "scan"
        /\ f.i < window_end(Len(plays), f.missed_shot_index)
        /\ LET st == ScanIter(At(plays, f.i), f.shooting_team_id,
                              f.found_offensive_rebound, f.total_points)
           IN  calls' = [calls EXCEPT ![c] =
                 [f EXCEPT !.found_offensive_rebound = st.found,
                           !.total_points = st.total,
                           !.credited =
                               IF st.total # f.total_points
                               THEN f.credited
                                      \cup {<<f.missed_shot_index, f.i>>}
                               ELSE f.credited,
                           !.stage = IF st.brk THEN "return" ELSE "scan",
                           !.i = IF st.brk THEN f.i ELSE f.i + 1]]
        /\ UNCHANGED CallFrame

\* lines 187 and 119: the scan returns and its points are added
CallScanReturn(c) ==
    LET f == calls[c]
        points_returned ==
            scan_return(f.found_offensive_rebound, f.total_points)
    IN  /\ \/ f.stage = "return"
           \/ /\ f.stage = "scan"
              /\ f.i >= window_end(Len(plays), f.missed_shot_index)
        /\ calls' = [calls EXCEPT ![c] =
              [f EXCEPT !.stage = "game",
                        !.total_kobe_points =
                            f.total_kobe_points + points_returned,
                        !.g = f.g + 1,
                        !.returned = f.returned
                            \cup {<<f.missed_shot_index, points_returned>>}]]
        /\ UNCHANGED CallFrame

\* line 120
CallGameReturn(c) ==
    LET f == calls[c]
    IN  /\ f.stage = "game"
        /\ f.g >= Len(plays)
        /\ calls' = [calls EXCEPT ![c] =
              [f EXCEPT !.stage = "done",
                        !.game_result = f.total_kobe_points]]
        /\ UNCHANGED CallFrame

NextCalls ==
    \E c \in DOMAIN calls :
        \/ CallGameStep(c)
        \/ CallScanStep(c)
        \/ CallScanReturn(c)
        \/ CallGameReturn(c)

SpecCalls == InitCalls /\ [][NextCalls]_vars

\* one call of the game analysis, every scan of it step by step
OneCallEvents ==
    {Miss(1, "Player X"), Miss(2, "Player X"), Rebound(1), Rebound(2),
     MadeFG(1, D_3PTShot), MadeFG(2, D_Layup), MadeFT(1)}

InitOneCall == InitCallsOf({1}, SeqsOf(OneCallEvents, 0, MaxCallLen))

SpecOneCall == InitOneCall /\ [][NextCalls]_vars

\* ------------------------------------------------------------------------
\* Properties
\* ------------------------------------------------------------------------
TypeAt(k) == Get(At(plays, k), "EVENTMSGTYPE", 0)
TeamAt(k) == Get(At(plays, k), "PLAYER1_TEAM_ID", 0)
NameAt(k) == Get(At(plays, k), "PLAYER1_NAME", "")
Indices == 0..(Len(plays) - 1)
\* the first n plays of the list
Prefix(n) == SubSeq(plays, 1, Min(Len(plays), n))
ScanDone == pc = "done" /\ result # -1
GameDone == pc = "done" /\ game_result # -1 /\ pbp.ok

\* plays[m] is a missed shot by T, plays[m+1] a rebound by T, plays[m+2] a
\* made field goal by T
ImmediateSequence ==
    /\ missed_shot_index + 2 \in Indices
    /\ TypeAt(missed_shot_index) = 2
    /\ TeamAt(missed_shot_index) = shooting_team_id
    /\ TypeAt(missed_shot_index + 1) = 4
    /\ TeamAt(missed_shot_index + 1) = shooting_team_id
    /\ TypeAt(missed_shot_index + 2) = 1
    /\ TeamAt(missed_shot_index + 2) = shooting_team_id

\* C1: a missed shot by T at m, a rebound by T at m+1 and a made field goal
\* by T at m+2: the scan returns a value > 0, reads no play after m+2, and
\* returns what it returns on the list cut after m+2.
C1_ImmediateSequenceScores ==
    ImmediateSequence =>
        /\ examined \subseteq {missed_shot_index + 1, missed_shot_index + 2}
        /\ ScanDone =>
              /\ result > 0
              /\ result = check_kobe_assist_sequence(
                              Prefix(missed_shot_index + 3),
                              missed_shot_index, shooting_team_id)

C1_Witness ==
    /\ ScanDone
    /\ ImmediateSequence
    /\ Len(plays) >= missed_shot_index + 5
    /\ TypeAt(missed_shot_index + 3) = 5
    /\ result > 0

\* C2: a rebound by another team at m+1: the scan returns 0, whatever
\* follows.
C2_DefensiveReboundFirst ==
    (/\ ScanDone
     /\ missed_shot_index + 1 \in Indices
     /\ TypeAt(missed_shot_index + 1) = 4
     /\ TeamAt(missed_shot_index + 1) # shooting_team_id)
    => result = 0

C2_Witness ==
    /\ ScanDone
    /\ missed_shot_index + 3 \in Indices
    /\ TypeAt(missed_shot_index + 1) = 4
    /\ TeamAt(missed_shot_index + 1) # shooting_team_id
    /\ TypeAt(missed_shot_index + 2) = 4
    /\ TeamAt(missed_shot_index + 2) = shooting_team_id
    /\ TypeAt(missed_shot_index + 3) = 1
    /\ TeamAt(missed_shot_index + 3) = shooting_team_id
    /\ result = 0

\* a turnover at index t after the missed shot, and no rebound by T between
\* the missed shot and t
TurnoverBeforeRebound(t) ==
    /\ t \in Indices
    /\ t > missed_shot_index
    /\ TypeAt(t) = 5
    /\ \A k \in (missed_shot_index + 1)..(t - 1) :
          ~(TypeAt(k) = 4 /\ TeamAt(k) = shooting_team_id)

\* C3: a turnover before any rebound by T: the scan returns 0, also when a
\* rebound by T and a made field goal by T follow the turnover.
C3_TurnoverBeforeRebound ==
    (ScanDone /\ \E t \in Indices : TurnoverBeforeRebound(t)) => result = 0

C3_Witness ==
    /\ ScanDone
    /\ missed_shot_index + 3 \in Indices
    /\ TurnoverBeforeRebound(missed_shot_index + 1)
    /\ TypeAt(missed_shot_index + 2) = 4
    /\ TeamAt(missed_shot_index + 2) = shooting_team_id
    /\ TypeAt(missed_shot_index + 3) = 1
    /\ TeamAt(missed_shot_index + 3) = shooting_team_id
    /\ result = 0

\* C4: every index read lies in m+1 .. min(len-1, m+7); the value returned
\* is the one returned on the list cut after m+7, and no play beyond m+7 is
\* credited.
C4_WindowBound ==
    /\ examined \subseteq
          (missed_shot_index + 1)..
              Min(Len(plays) - 1, missed_shot_index + 7)
    /\ credited_at <= missed_shot_index + 7
    /\ ScanDone =>
          result = check_kobe_assist_sequence(Prefix(missed_shot_index + 8),
                       missed_shot_index, shooting_team_id)

C4_Witness ==
    /\ ScanDone
    /\ missed_shot_index + 8 \in Indices
    /\ TypeAt(missed_shot_index + 8) = 1
    /\ TeamAt(missed_shot_index + 8) = shooting_team_id
    /\ found_offensive_rebound
    /\ examined = (missed_shot_index + 1)..(missed_shot_index + 7)
    /\ result = 0

\* C5: a non-zero value is returned only if the window holds a rebound by T
\* at some r and the credited score at some s > r, the score being of team T.
C5_ReboundBeforeScore ==
    (ScanDone /\ result # 0) =>
        \E r, s \in (missed_shot_index + 1)..(missed_shot_index + 7) :
            /\ r < s
            /\ s \in Indices
            /\ TypeAt(r) = 4
            /\ TeamAt(r) = shooting_team_id
            /\ s = credited_at
            /\ TypeAt(s) \in {1, 3}
            /\ TeamAt(s) = shooting_team_id

C5_Witness ==
    /\ ScanDone
    /\ result # 0
    /\ rebound_at = missed_shot_index + 2
    /\ credited_at = rebound_at + 2

\* index k holds a missed shot whose player name equals the target's
TargetMissAt(k) == TypeAt(k) = 2 /\ NameAt(k) = player_name

\* C6: the analysis of a game in which no play is a missed shot with the
\* target's exact name returns 0.
C6_NoTargetMiss ==
    (GameDone /\ \A k \in Indices : ~TargetMissAt(k)) => game_result = 0

\* another spelling of the name misses and the scan of that miss scores
C6_Witness ==
    /\ GameDone
    /\ \A k \in Indices : ~TargetMissAt(k)
    /\ \E k \in Indices :
          /\ TypeAt(k) = 2
          /\ NameAt(k) # player_name
          /\ check_kobe_assist_sequence(plays, k, TeamAt(k)) > 0
    /\ game_result = 0

\* the sum of the scans of the target's missed shots at indices below n,
\* each on the whole list
RECURSIVE SumScans(_)
SumScans(n) ==
    IF n = 0
    THEN 0
    ELSE SumScans(n - 1)
           + (IF TargetMissAt(n - 1)
              THEN check_kobe_assist_sequence(plays, n - 1, TeamAt(n - 1))
              ELSE 0)

\* C7: the total of a game is the sum, over the target's missed shots, of
\* the scan of each on the unmodified list.
C7_TotalIsSumOfScans ==
    /\ pc = "game" => total_kobe_points = SumScans(g)
    /\ GameDone => game_result = SumScans(Len(plays))

\* two missed shots whose windows overlap are both credited the same basket
C7_Witness ==
    /\ GameDone
    /\ player_name = "Player X"
    /\ plays = <<Miss(1, "Player X"), Rebound(1), Miss(1, "Player X"),
                 Rebound(1), MadeFG(1, D_Layup)>>
    /\ game_result = 2

\* C8: after the offensive rebound, the first play read that is a score in
\* the sense of is_score (made field goal or made free throw) by team T is
\* credited with points > 0 and ends the scan.
C8_FirstScoreCredited ==
    \A s \in examined :
        (/\ ScanDone
         /\ rebound_at # -1
         /\ s > rebound_at
         /\ is_score(At(plays, s))
         /\ TeamAt(s) = shooting_team_id
         /\ \A k \in examined :
               (k > rebound_at /\ k < s) =>
                   ~(is_score(At(plays, k)) /\ TeamAt(k) = shooting_team_id))
        => /\ result > 0
           /\ credited_at = s
           /\ \A k \in examined : k <= s

\* C9: the value returned for a detected sequence is the number of points
\* of the credited play, extract_points_from_play of it.
C9_ReturnsPointsOfPlay ==
    (ScanDone /\ credited_at # -1) =>
        result = extract_points_from_play(At(plays, credited_at))

\* C10: the loop runs at most 7 times, and at most once per play after the
\* missed shot; it can always go on until it returns, and it returns; the
\* value returned is an integer >= 0; with m the last index the loop does
\* not run and 0 is returned.
C10_StateBounds ==
    /\ Cardinality(examined) <= 7
    /\ Cardinality(examined) <= Len(plays) - 1 - missed_shot_index
    /\ pc = "scan" => i = missed_shot_index + 1 + Cardinality(examined)
    /\ ScanDone => result \in Nat
    /\ missed_shot_index = Len(plays) - 1 =>
          /\ examined = {}
          /\ ScanDone => result = 0

C10_Terminates == []C10_StateBounds /\ <>ScanDone

C10_Witness ==
    /\ ScanDone
    /\ Cardinality(examined) = 7
    /\ Len(plays) > missed_shot_index + 8

\* the text extract_points_from_play searches: both columns, a space between
DescriptionText ==
    Str(Get(play, "HOMEDESCRIPTION", <<>>)) \o <<" ">>
        \o Str(Get(play, "VISITORDESCRIPTION", <<>>))
ThreePointMarker ==
    \/ Contains(DescriptionText, <<"3", "P", "T">>)
    \/ Contains(DescriptionText,
                <<"T", "h", "r", "e", "e", " ", "P", "o", "i", "n", "t">>)
FreeThrowMarker ==
    \/ Contains(DescriptionText,
                <<"F", "r", "e", "e", " ", "T", "h", "r", "o", "w">>)
    \/ Contains(DescriptionText,
                <<"T", "e", "c", "h", "n", "i", "c", "a", "l">>)
PointsDone == pc = "done" /\ points # -1

\* C11: 3 with a three-point marker in the text (also next to a free-throw
\* marker), 1 with a free-throw marker and no three-point marker, 2
\* otherwise, also with both columns absent; always one of 1, 2, 3.
C11_PointsByMarker ==
    PointsDone =>
        /\ points \in {1, 2, 3}
        /\ ThreePointMarker => points = 3
        /\ (FreeThrowMarker /\ ~ThreePointMarker) => points = 1
        /\ (~FreeThrowMarker /\ ~ThreePointMarker) => points = 2
        /\ DOMAIN play = {"EVENTMSGTYPE"} => points = 2

C11_Witness ==
    /\ PointsDone
    /\ ThreePointMarker
    /\ FreeThrowMarker
    /\ points = 3

RECURSIVE SumOf(_)
SumOf(q) == IF q = <<>> THEN 0 ELSE q[1] + SumOf(Tail(q))

\* C12: a game whose play-by-play is unavailable is analysed as 0 points and
\* no exception leaves the analysis; the worker goes on with the next game
\* and reports every game of its list.
C12_UnavailableGameCountsZero ==
    /\ pc # "crashed"
    /\ Len(log) = worker_i
    /\ \A k \in 1..Len(log) : ~games[k].ok => log[k] = 0
    /\ worker_total_points = SumOf(log)
    /\ (pc = "done" /\ games # <<>>) =>
          /\ Len(log) = Len(games)
          /\ average = <<SumOf(log), Len(games)>>

C12_Witness ==
    /\ pc = "done"
    /\ Len(games) >= 2
    /\ ~games[1].ok
    /\ log[1] = 0
    /\ log[2] > 0

\* C13: each of two calls with the same plays and player name, their steps
\* interleaved in any order, returns what a call on its own returns, and so
\* does each scan inside it; two finished calls agree.
C13_CallsIndependent ==
    /\ \A c \in DOMAIN calls :
          /\ calls[c].stage = "done" =>
                calls[c].game_result = GameLoop(plays, 0, player_name, 0)
          /\ \A r \in calls[c].returned :
                r[2] = check_kobe_assist_sequence(plays, r[1], TeamAt(r[1]))
    /\ \A c, d \in DOMAIN calls :
          (calls[c].stage = "done" /\ calls[d].stage = "done") =>
              calls[c].game_result = calls[d].game_result

\* one call has finished with points while the other is inside its second
\* scan
C13_Witness ==
    /\ pc = "calls"
    /\ calls[1].stage = "done"
    /\ calls[1].game_result > 0
    /\ calls[2].stage = "scan"
    /\ calls[2].returned # {}

\* the number of missed shots of the target among the plays below index n
RECURSIVE TargetMisses(_)
TargetMisses(n) ==
    IF n = 0 THEN 0
    ELSE TargetMisses(n - 1) + (IF TargetMissAt(n - 1) THEN 1 ELSE 0)

\* C15: every scan returns 0 or 1; the play credited is a made field goal
\* (type 1), whatever its points, and one at most per missed shot; the total
\* of a game is at most the number of the target's missed shots.
C15_ZeroOrOnePerMiss ==
    \A c \in DOMAIN calls :
        LET f == calls[c]
        IN  /\ f.total_points \in {0, 1}
            /\ \A r \in f.returned : r[2] \in {0, 1}
            /\ \A a \in f.credited : TypeAt(a[2]) = 1
            /\ \A a, b \in f.credited : a[1] = b[1] => a[2] = b[2]
            /\ f.total_kobe_points <= TargetMisses(f.g)
            /\ f.stage = "done" => f.game_result <= TargetMisses(Len(plays))

\* a three-point basket credited as 1, and a game with two scans credited
C15_Witness ==
    /\ pc = "calls"
    /\ DOMAIN calls = {1}
    /\ calls[1].stage = "done"
    /\ calls[1].game_result = 2
    /\ \E a \in calls[1].credited :
          /\ extract_points_from_play(At(plays, a[2])) = 3
          /\ <<a[1], 1>> \in calls[1].returned

\* C16: when the scan returns a value > 0, no play between the missed shot
\* and the credited score is a turnover or a rebound of another team; after
\* the offensive rebound such a play ends the scan with 0.
C16_NoPossessionChangeBeforeScore ==
    /\ (ScanDone /\ result > 0) =>
          \A k \in (missed_shot_index + 1)..(credited_at - 1) :
              /\ TypeAt(k) # 5
              /\ ~(TypeAt(k) = 4 /\ TeamAt(k) # shooting_team_id)
    /\ (ScanDone /\ rebound_at # -1) =>
          \A k \in examined :
              (/\ k > rebound_at
               /\ \/ TypeAt(k) = 5
                  \/ TypeAt(k) = 4 /\ TeamAt(k) # shooting_team_id)
              => /\ result = 0
                 /\ \A j \in examined : j <= k

C16_Witness ==
    /\ ScanDone
    /\ missed_shot_index + 3 \in Indices
    /\ rebound_at = missed_shot_index + 1
    /\ TypeAt(missed_shot_index + 2) = 4
    /\ TeamAt(missed_shot_index + 2) # shooting_team_id
    /\ TypeAt(missed_shot_index + 3) = 1
    /\ TeamAt(missed_shot_index + 3) = shooting_team_id
    /\ result = 0

\* the play about to be read is a foul, a timeout, a missed shot, a play of
\* a missing or unknown type, or a rebound of the shooting team after the
\* first one
NeutralPlayNext ==
    /\ pc = "scan"
    /\ i \in Indices
    /\ i <= missed_shot_index + 7
    /\ \/ TypeAt(i) \notin {1, 3, 4, 5}
       \/ /\ TypeAt(i) = 4
          /\ TeamAt(i) = shooting_team_id
          /\ found_offensive_rebound

\* C17: reading such a play changes neither found_offensive_rebound nor the
\* points and does not end the scan, before and after the offensive rebound.
C17_NeutralPlaySkipped ==
    [][NeutralPlayNext =>
          /\ found_offensive_rebound' = found_offensive_rebound
          /\ total_points' = total_points
          /\ pc' = "scan"
          /\ i' = i + 1]_vars

C17_Witness ==
    /\ ScanDone
    /\ missed_shot_index + 4 \in Indices
    /\ TypeAt(missed_shot_index + 1) = 6
    /\ rebound_at = missed_shot_index + 2
    /\ TypeAt(missed_shot_index + 3) = 6
    /\ credited_at = missed_shot_index + 4
    /\ result > 0

\* C18: a made field goal of the other team after the offensive rebound is
\* not credited and does not end the scan; a later made field goal of T in
\* the window is credited.
C18_OpponentBasketSkipped ==
    /\ \A k \in examined :
          (/\ rebound_at # -1
           /\ k > rebound_at
           /\ TypeAt(k) = 1
           /\ TeamAt(k) # shooting_team_id)
          => /\ credited_at # k
             /\ pc # "return" \/ k < i
             /\ (ScanDone /\ k + 1 \in Indices
                  /\ k + 1 <= missed_shot_index + 7) => k + 1 \in examined
    /\ (/\ ScanDone
        /\ missed_shot_index + 3 \in Indices
        /\ TypeAt(missed_shot_index + 1) = 4
        /\ TeamAt(missed_shot_index + 1) = shooting_team_id
        /\ TypeAt(missed_shot_index + 2) = 1
        /\ TeamAt(missed_shot_index + 2) # shooting_team_id
        /\ TypeAt(missed_shot_index + 3) = 1
        /\ TeamAt(missed_shot_index + 3) = shooting_team_id)
       => result > 0

C18_Witness ==
    /\ ScanDone
    /\ missed_shot_index + 3 \in Indices
    /\ rebound_at = missed_shot_index + 1
    /\ TypeAt(missed_shot_index + 2) = 1
    /\ TeamAt(missed_shot_index + 2) # shooting_team_id
    /\ credited_at = missed_shot_index + 3
    /\ result > 0

\* ---------------------------------------------------------------------
\* The application window: class KobeAssistApp, its event handlers, the
\* load_players threads and the calculation threads it starts.  A handler
\* runs in the main loop, which runs nothing else until the handler has
\* ended; a thread is followed read by read and store by store, and a
\* widget call of a thread takes effect when the main loop runs it.
\* ---------------------------------------------------------------------

\* load_players threads started, the one of __init__ included
MaxLoads == 2
\* calculation threads started
MaxCalcs == 2
\* games get_sample_games answers at most
MaxSample == 1

\* two values of the season box; preload_seasons selects the first
Seasons == {"2025-26", "2024-25"}
DefaultSeason == "2025-26"

\* the PLAYER_NAME column the statistics source has for a season
Roster(season) ==
    IF season = DefaultSeason THEN {"Player X", "Player Y"}
                              ELSE {"Player X", "Player Z"}

\* texts the user types in the player box
TypedTexts == {"r y", "q"}

\* the characters of a name or of a typed text
Chars(text) ==
    CASE text = "Player X" -> <<"P", "l", "a", "y", "e", "r", " ", "X">>
      [] text = "Player Y" -> <<"P", "l", "a", "y", "e", "r", " ", "Y">>
      [] text = "Player Z" -> <<"P", "l", "a", "y", "e", "r", " ", "Z">>
      [] text = "r y" -> <<"r", " ", "y">>
      [] text = "q" -> <<"q">>
      [] OTHER -> <<>>

\* str.lower()
lower(s) ==
    [k \in DOMAIN s |->
        CASE s[k] = "P" -> "p"
          [] s[k] = "X" -> "x"
          [] s[k] = "Y" -> "y"
          [] s[k] = "Z" -> "z"
          [] OTHER -> s[k]]

\* self.players_df before the first load
NoFrame == [none |-> TRUE]

\* get_all_players(season): the roster of the season, a frame with the
\* three columns and no row, or on any error a frame without columns;
\* season records which call produced the frame
get_all_players(season) ==
    {[season |-> season, names |-> Roster(season), columns |-> TRUE],
     [season |-> season, names |-> {}, columns |-> TRUE],
     [season |-> season, names |-> {}, columns |-> FALSE]}

\* df.empty
empty(df) == df.names = {}

\* the rows of a frame: get_all_players sorts by PLAYER_NAME and numbers
\* the rows from 0
NameOrder == <<"Player X", "Player Y", "Player Z">>
Rows(df) == SelectSeq(NameOrder, LAMBDA n : n \in df.names)

\* outer[inner['PLAYER_NAME'] == name], outer and inner the values of
\* self.players_df at its two reads: the rows of outer where the row of
\* inner with the same number has the name (<<>>: no row); the KeyError of
\* an inner frame without the column, or the IndexingError when outer has
\* a row number inner has not
player_info(outer, inner, name) ==
    IF ~inner.columns THEN Raised
    ELSE IF Len(Rows(outer)) > Len(Rows(inner)) THEN Raised
    ELSE IF \E k \in 1..Len(Rows(outer)) : Rows(inner)[k] = name
         THEN Returned(<<Rows(outer)[CHOOSE k \in 1..Len(Rows(outer)) :
                                        Rows(inner)[k] = name]>>)
         ELSE Returned(<<>>)

\* the main loop runs no handler
NoHandler == [handler |-> ""]
MainLoopIdle == threads.main = NoHandler

\* threading.Thread(...).is_alive() of app.calculation_thread
is_alive(id) == \E c \in threads.calcs : c.id = id

\* a load_players thread just started
LoadThread(id, season) ==
    [id |-> id, season |-> season, stage |-> "fetch", names |-> {},
     values |-> {}]

\* the state __init__ leaves: the season box preset, the other widgets
\* disabled, and the load_players thread of preload_seasons started
InitGui ==
    /\ pc = "gui"
    /\ app = [season_var |-> DefaultSeason, player_var |-> "",
              players_df |-> NoFrame, player_names |-> {},
              player_combo_values |-> {},
              player_combo_state |-> "disabled",
              calc_button_state |-> "disabled",
              calculation_thread |-> 0]
    /\ threads = [loads |-> {LoadThread(1, DefaultSeason)},
                  started_loads |-> 1, calcs |-> {}, started_calcs |-> 0,
                  after |-> 0, main |-> NoHandler]
    /\ plays = <<>>
    /\ ScanEntry(0, 0)
    /\ NoGame
    /\ NoPoints
    /\ NoWorker
    /\ NoCalls

GuiFrame == <<plays, pc, scan_vars, game_vars, points_vars, worker_vars,
              calls>>

\* lines 279-285: the user picks a season in the season box
on_season_change(season) ==
    /\ pc = "gui"
    /\ MainLoopIdle
    /\ threads.started_loads < MaxLoads
    /\ app' = [app EXCEPT !.season_var = season, !.player_var = "",
                          !.player_combo_state = "disabled",
                          !.calc_button_state = "disabled"]
    /\ threads' = [threads EXCEPT
                      !.started_loads = @ + 1,
                      !.loads = @ \cup
                          {LoadThread(threads.started_loads + 1, season)}]
    /\ UNCHANGED GuiFrame

\* the thread l at its next stage, or ended
LoadAt(l, stage) ==
    threads' = [threads EXCEPT
                   !.loads = (@ \ {l}) \cup {[l EXCEPT !.stage = stage]}]
LoadEnds(l) == threads' = [threads EXCEPT !.loads = @ \ {l}]

\* line 288: a load_players thread stores what the source answered
load_players_fetch(l) ==
    /\ pc = "gui"
    /\ l.stage = "fetch"
    /\ \E df \in get_all_players(l.season) :
          app' = [app EXCEPT !.players_df = df]
    /\ LoadAt(l, "test")
    /\ UNCHANGED GuiFrame

\* line 289: it reads self.players_df and tests .empty
load_players_test(l) ==
    /\ pc = "gui"
    /\ l.stage = "test"
    /\ IF ~empty(app.players_df) THEN LoadAt(l, "names")
                                 ELSE LoadAt(l, "log_failed")
    /\ UNCHANGED <<app, GuiFrame>>

\* line 290: it reads self.players_df again and takes the names as a
\* list; a frame without the column raises and the thread ends
load_players_names(l) ==
    /\ pc = "gui"
    /\ l.stage = "names"
    /\ IF ~app.players_df.columns
       THEN LoadEnds(l)
       ELSE threads' = [threads EXCEPT
                           !.loads = (@ \ {l}) \cup
                               {[l EXCEPT !.stage = "store_names",
                                          !.names = app.players_df.names]}]
    /\ UNCHANGED <<app, GuiFrame>>

\* line 290: it stores the list in self.player_names
load_players_store_names(l) ==
    /\ pc = "gui"
    /\ l.stage = "store_names"
    /\ app' = [app EXCEPT !.player_names = l.names]
    /\ LoadAt(l, "values")
    /\ UNCHANGED GuiFrame

\* line 291: it reads self.player_names and asks the main loop to set
\* the values of the player box
load_players_values(l) ==
    /\ pc = "gui"
    /\ l.stage = "values"
    /\ threads' = [threads EXCEPT
                      !.loads = (@ \ {l}) \cup
                          {[l EXCEPT !.stage = "set_values",
                                     !.values = app.player_names]}]
    /\ UNCHANGED <<app, GuiFrame>>

\* line 291: the main loop sets the values
load_players_set_values(l) ==
    /\ pc = "gui"
    /\ MainLoopIdle
    /\ l.stage = "set_values"
    /\ app' = [app EXCEPT !.player_combo_values = l.values]
    /\ LoadAt(l, "state")
    /\ UNCHANGED GuiFrame

\* line 292: the main loop enables the player box
load_players_state(l) ==
    /\ pc = "gui"
    /\ MainLoopIdle
    /\ l.stage = "state"
    /\ app' = [app EXCEPT !.player_combo_state = "normal"]
    /\ LoadAt(l, "log")
    /\ UNCHANGED GuiFrame

\* line 293: the main loop writes the log and the thread ends
load_players_log(l) ==
    /\ pc = "gui"
    /\ MainLoopIdle
    /\ l.stage = "log"
    /\ LoadEnds(l)
    /\ UNCHANGED <<app, GuiFrame>>

\* line 295: the main loop writes the log
load_players_log_failed(l) ==
    /\ pc = "gui"
    /\ MainLoopIdle
    /\ l.stage = "log_failed"
    /\ LoadAt(l, "disable")
    /\ UNCHANGED <<app, GuiFrame>>

\* line 296: the main loop disables the player box and the thread ends
load_players_disable(l) ==
    /\ pc = "gui"
    /\ MainLoopIdle
    /\ l.stage = "disable"
    /\ app' = [app EXCEPT !.player_combo_state = "disabled"]
    /\ LoadEnds(l)
    /\ UNCHANGED GuiFrame

\* lines 299-300: the user picks a name in the list of the player box;
\* the handler reads self.players_df, the frame to index
on_player_change(name) ==
    /\ pc = "gui"
    /\ MainLoopIdle
    /\ app.player_combo_state = "normal"
    /\ name \in app.player_combo_values
    /\ app' = [app EXCEPT !.player_var = name]
    /\ threads' = [threads EXCEPT
                      !.main = [handler |-> "on_player_change",
                                player_name |-> name,
                                outer |-> app.players_df]]
    /\ UNCHANGED GuiFrame

\* lines 300-310: it reads self.players_df again for the column, looks the
\* name up and sets the button; a lookup that raises ends the handler
on_player_change_lookup ==
    /\ pc = "gui"
    /\ threads.main.handler = "on_player_change"
    /\ LET info == player_info(threads.main.outer, app.players_df,
                               threads.main.player_name)
       IN  app' = [app EXCEPT
                      !.calc_button_state =
                          IF info.raised THEN @
                          ELSE IF info.value # <<>> THEN "normal"
                          ELSE "disabled"]
    /\ threads' = [threads EXCEPT !.main = NoHandler]
    /\ UNCHANGED GuiFrame

\* lines 312-315: the user types in the player box; the values become the
\* names that contain the text, whatever the case
filter_players(text) ==
    /\ pc = "gui"
    /\ MainLoopIdle
    /\ app.player_combo_state = "normal"
    /\ LET search_term == lower(Chars(text))
       IN  app' = [app EXCEPT
                      !.player_var = text,
                      !.player_combo_values =
                          {name \in app.player_names :
                              Contains(lower(Chars(name)), search_term)}]
    /\ UNCHANGED <<threads, GuiFrame>>

\* lines 322-327: the user clicks Calculate; the handler reads the player
\* box and self.players_df, the frame to index
start_calculation ==
    /\ pc = "gui"
    /\ MainLoopIdle
    /\ app.calc_button_state = "normal"
    /\ threads.started_calcs < MaxCalcs
    /\ threads' = [threads EXCEPT
                      !.main = [handler |-> "start_calculation",
                                player_name |-> app.player_var,
                                outer |-> app.players_df]]
    /\ UNCHANGED <<app, GuiFrame>>

\* lines 327-338: it reads self.players_df again for the column and looks
\* the name up; with a row it disables the button, starts the thread and
\* calls check_thread, which finds the thread alive
start_calculation_lookup ==
    /\ pc = "gui"
    /\ threads.main.handler = "start_calculation"
    /\ LET info == player_info(threads.main.outer, app.players_df,
                               threads.main.player_name)
       IN  IF info.raised \/ info.value = <<>>
           THEN /\ threads' = [threads EXCEPT !.main = NoHandler]
                /\ UNCHANGED app
           ELSE /\ app' = [app EXCEPT
                              !.calc_button_state = "disabled",
                              !.calculation_thread =
                                  threads.started_calcs + 1]
                /\ threads' = [threads EXCEPT
                                  !.main = NoHandler,
                                  !.started_calcs = @ + 1,
                                  !.calcs = @ \cup
                                      {[id |-> threads.started_calcs + 1,
                                        left |-> -1]},
                                  !.after = @ + 1]
    /\ UNCHANGED GuiFrame

\* lines 340-344: a scheduled check_thread callback runs
check_thread ==
    /\ pc = "gui"
    /\ MainLoopIdle
    /\ threads.after > 0
    /\ IF is_alive(app.calculation_thread)
       THEN UNCHANGED <<app, threads>>
       ELSE /\ app' = [app EXCEPT !.calc_button_state = "normal"]
            /\ threads' = [threads EXCEPT !.after = @ - 1]
    /\ UNCHANGED GuiFrame

\* lines 203-206: a calculation thread asks for the sample of games and
\* returns when there is none
calculate_sample(c) ==
    /\ pc = "gui"
    /\ c.left = -1
    /\ \E n \in 0..MaxSample :
          threads' = [threads EXCEPT
                         !.calcs = IF n = 0 THEN @ \ {c}
                                   ELSE (@ \ {c}) \cup {[c EXCEPT !.left = n]}]
    /\ UNCHANGED <<app, GuiFrame>>

\* lines 209-213: it analyses the next game
calculate_game(c) ==
    /\ pc = "gui"
    /\ c.left > 0
    /\ threads' = [threads EXCEPT
                      !.calcs = (@ \ {c}) \cup {[c EXCEPT !.left = @ - 1]}]
    /\ UNCHANGED <<app, GuiFrame>>

\* lines 215-217: it reports the average and ends
calculate_finish(c) ==
    /\ pc = "gui"
    /\ c.left = 0
    /\ threads' = [threads EXCEPT !.calcs = @ \ {c}]
    /\ UNCHANGED <<app, GuiFrame>>

NextGui ==
    \/ \E season \in Seasons : on_season_change(season)
    \/ \E l \in threads.loads : load_players_fetch(l)
    \/ \E l \in threads.loads : load_players_test(l)
    \/ \E l \in threads.loads : load_players_names(l)
    \/ \E l \in threads.loads : load_players_store_names(l)
    \/ \E l \in threads.loads : load_players_values(l)
    \/ \E l \in threads.loads : load_players_set_values(l)
    \/ \E l \in threads.loads : load_players_state(l)
    \/ \E l \in threads.loads : load_players_log(l)
    \/ \E l \in threads.loads : load_players_log_failed(l)
    \/ \E l \in threads.loads : load_players_disable(l)
    \/ \E name \in app.player_combo_values : on_player_change(name)
    \/ on_player_change_lookup
    \/ \E text \in TypedTexts : filter_players(text)
    \/ start_calculation
    \/ start_calculation_lookup
    \/ check_thread
    \/ \E c \in threads.calcs : calculate_sample(c)
    \/ \E c \in threads.calcs : calculate_game(c)
    \/ \E c \in threads.calcs : calculate_finish(c)

SpecGui == InitGui /\ [][NextGui]_vars

\* C14: at most one calculation thread is alive, and the Calculate button is
\* disabled while one is.
C14_SingleWorker ==
    /\ Cardinality(threads.calcs) <= 1
    /\ threads.calcs # {} => app.calc_button_state = "disabled"

\* C19: once no load_players thread is left, a roster held in players_df is
\* the one fetched for the selected season, player_names are its names and
\* the values of the player box are among them.
C19_CurrentSeasonLoaded ==
    (threads.loads = {} /\ app.players_df # NoFrame
                        /\ ~empty(app.players_df)) =>
        /\ app.players_df.season = app.season_var
        /\ app.player_names = Roster(app.season_var)
        /\ app.player_combo_values \subseteq Roster(app.season_var)

====
